---- MODULE Spec2Model ----
(***************************************************************************)
(* Weighted BACON regression (wbacon_reg.c, fitwls.c): the driver          *)
(* wbacon_reg with its three phases initial_reg, algorithm_4, algorithm_5, *)
(* the subset selector, the Cholesky maintainer and the scratch buffers.   *)
(*                                                                         *)
(* Abstraction of the floating-point state.                                *)
(*  - An observation's weighted row sqrt(w[i]) * x[i,] is either null      *)
(*    (xrow[i] = 0: zero weight or zero covariates) or not; non-null rows  *)
(*    are in general position, so a weighted subset has full column rank   *)
(*    iff it holds at least P non-null rows.                               *)
(*  - L and xty are kept as the multiset of observations whose             *)
(*    contribution they hold (rep[i] = number of times row i was added),   *)
(*    so L*L^T = sum_i rep[i] * w[i] * x[i,]^T x[i,].                      *)
(*  - Scores (dist) are levels 0..MaxScore; compute_ti may produce any     *)
(*    score vector (residuals and est->sigma are not modelled).            *)
(*  - Vectors are indexed from 0 as in the C code.                         *)
(***************************************************************************)
EXTENDS Integers, Sequences, FiniteSets, TLC

\* ------------------------------------------------------------------ bounds
N == 3
P == 1
MaxCollect == 3
MaxIter == 2
MaxScore == 1
\* the parallel loops: number of columns and of observations
OmpP == 3
OmpN == 2

Obs == 0..(N - 1)
Scores == 0..MaxScore
\* largest m for which an out-of-bounds access is still followed further
MaxM == N + 1

WBACON_ERROR_OK == "OK"
WBACON_ERROR_RANK_DEFICIENT == "RankDeficient"
WBACON_ERROR_TRIANG_MAT_SINGULAR == "TriangularMatrixSingular"
WBACON_ERROR_CONVERGENCE_FAILURE == "ConvergenceFailure"

\* the scratch buffers obtained with Calloc in wbacon_reg
Buffers == {"subset1", "wy", "wx", "w_sqrt", "L", "xty", "work_p", "work_pp",
            "work_np", "work_n", "iarray", "dgels_work"}

VARIABLES
    pc,        \* position of the call in wbacon_reg and its phases
    xrow,      \* input: xrow[i] = 1 iff the weighted row i is non-null
    collect,   \* input: growth multiplier
    maxiter0,  \* input: the value of *maxiter on entry
    subset0,   \* int subset0[n] (caller's buffer)
    subset1,   \* int subset1[n] (scratch)
    m,         \* *m
    dist,      \* est->dist
    iarray,    \* work->iarray
    L,         \* est->L
    xty,       \* est->xty
    wx,        \* dat->wx: the fit whose QR factorization it holds
    x,         \* the caller's design-matrix buffer: the design (qr = FALSE)
               \* or a copy of wx
    success,   \* *success
    maxiter,   \* *maxiter
    iter,      \* local iter of algorithm_5
    rets,      \* the error codes the phases returned to wbacon_reg, in order
    freed,     \* number of times each scratch buffer was passed to Free
    qtab,      \* values of qt() seen so far, by m (-1: not evaluated yet)
    sel,       \* arguments of the select_subset call that made subset1,
               \* until update_chol_xty has consumed subset1 (then m = 0)
    refits,    \* number of fitwls calls made by algorithm_5
    omp        \* the parallel region being executed (loop = "none": none)

vars == <<pc, xrow, collect, maxiter0, subset0, subset1, m, dist, iarray, L,
          xty, wx, x, success, maxiter, iter, rets, freed, qtab, sel, refits,
          omp>>

\* ----------------------------------------------------------------- helpers
Zeros == [i \in Obs |-> 0]
Card(s) == Cardinality({i \in Obs : s[i] = 1})
NoSel == [x |-> Zeros, m |-> 0]
Perms == {f \in [Obs -> Obs] : \A i, j \in Obs : f[i] = f[j] => i = j}

\* rank check of fitwls (|R_ii| < sqrt(DBL_EPSILON)) on the rows held by c
FullRank(c) == Cardinality({i \in Obs : c[i] > 0 /\ xrow[i] = 1}) >= P

\* fitwls(dat, est, subset, work, lwork): QR of the weighted subset rows is
\* left in wx; returns 1 (ok = FALSE) when the rank check fails
fitwls(subset) == [sub |-> subset, ok |-> FullRank(subset)]

\* "extract R matrix (as a lower triangular matrix: L) from dat->wx"
ExtractL_Skipped(wxv) == L
ExtractL(wxv) == [rep |-> wxv.sub, fresh |-> TRUE, bad |-> ~wxv.ok]

\* hat_matrix: dtrtri reports a singular factor only for an exactly zero
\* diagonal entry; a singular L has a diagonal entry that is zero or a
\* rounding residue
hat_matrix(Lv) ==
    IF FullRank(Lv.rep) THEN {WBACON_ERROR_OK}
    ELSE {WBACON_ERROR_OK, WBACON_ERROR_TRIANG_MAT_SINGULAR}

\* psort_array(dist, iarray, n, n): index permutations that sort d ascending
\* (the order it leaves in dist itself is not read before compute_ti
\* overwrites dist)
psort_array(d) ==
    {f \in Perms : \A i, j \in Obs : i < j => d[f[i]] <= d[f[j]]}

\* select_k(x, lo, hi, k): rearranges x in place so that x[k] is the
\* (k+1)-th smallest, smaller-or-equal before it, greater-or-equal behind
select_k(xv, k) ==
    {y \in {[i \in Obs |-> xv[f[i]]] : f \in Perms} :
        /\ \A i \in Obs : i < k => y[i] <= y[k]
        /\ \A j \in Obs : j > k => y[j] >= y[k]}

\* select_subset(x, subset, m, n) for 1 <= m <= n
select_subset(xv, mv) ==
    {[x |-> y, subset |-> [i \in Obs |-> IF y[i] <= y[mv - 1] THEN 1 ELSE 0]] :
        y \in select_k(xv, mv - 1)}

\* select_subset with m > n: select_k and x[m - 1] leave the array, the
\* threshold is whatever lies behind it
select_subset_oob(xv) ==
    {[x |-> y, subset |-> [i \in Obs |-> IF y[i] <= t THEN 1 ELSE 0]] :
        y \in {[i \in Obs |-> xv[f[i]]] : f \in Perms}, t \in (-1)..MaxScore}

\* chol_update(L, u, p) with u the weighted row i
chol_update(Lv, i) == [Lv EXCEPT !.rep[i] = @ + 1, !.fresh = FALSE]

\* chol_downdate(L, u, p) with u the weighted row at: fails when a squared
\* diagonal entry minus the squared update entry is negative.  Removing a row
\* L does not hold makes it negative; when the result is singular the
\* difference is zero up to rounding and either sign can come out.
chol_downdate(Lv, at) ==
    LET new == [Lv EXCEPT !.rep[at] = @ - 1, !.fresh = FALSE]
    IN  IF xrow[at] = 0 THEN {[err |-> WBACON_ERROR_OK, L |-> new]}
        ELSE IF new.rep[at] < 0
             THEN {[err |-> WBACON_ERROR_RANK_DEFICIENT, L |-> new]}
        ELSE IF FullRank(new.rep) THEN {[err |-> WBACON_ERROR_OK, L |-> new]}
        ELSE {[err |-> WBACON_ERROR_OK, L |-> new],
              [err |-> WBACON_ERROR_RANK_DEFICIENT, L |-> new]}

\* first pass of update_chol_xty: updates applied for i = 0..n-1; ops lists
\* the chol_update calls in the order they are made
RECURSIVE first_pass_Interleaved(_, _, _, _, _)
first_pass_Interleaved(Lv, xv, s0, s1, i) ==
    IF i = N THEN [L |-> Lv, xty |-> xv, ops |-> <<>>]
    ELSE IF s1[i] = s0[i]
         THEN first_pass_Interleaved(Lv, xv, s0, s1, i + 1)
         ELSE LET up == s1[i] > s0[i]
                  d == IF up THEN 1 ELSE -1
                  r == first_pass_Interleaved(
                           [Lv EXCEPT !.rep[i] = @ + d, !.fresh = FALSE],
                           [xv EXCEPT ![i] = @ + d], s0, s1, i + 1)
              IN  [r EXCEPT !.ops =
                      <<[op |-> IF up THEN "update" ELSE "downdate",
                         i |-> i]>> \o @]
RECURSIVE first_pass(_, _, _, _, _)
first_pass(Lv, xv, s0, s1, i) ==
    IF i = N THEN [L |-> Lv, xty |-> xv, ops |-> <<>>]
    ELSE IF s1[i] > s0[i]
         THEN LET r == first_pass(chol_update(Lv, i), [xv EXCEPT ![i] = @ + 1],
                                  s0, s1, i + 1)
              IN  [r EXCEPT !.ops = <<[op |-> "update", i |-> i]>> \o @]
         ELSE first_pass(Lv, xv, s0, s1, i + 1)

\* the downdates put onto the stack (work->iarray), ascending in i
RECURSIVE downdate_stack(_, _, _)
downdate_stack(s0, s1, i) ==
    IF i = N THEN <<>>
    ELSE IF s1[i] < s0[i] THEN <<i>> \o downdate_stack(s0, s1, i + 1)
         ELSE downdate_stack(s0, s1, i + 1)

\* second pass of update_chol_xty: downdates from the stack; a failed
\* downdate restores the copies made on entry; ops lists the chol_downdate
\* calls in the order they are made
RECURSIVE second_pass(_, _, _, _, _)
second_pass(Lv, xv, stack, k, saved) ==
    IF k > Len(stack)
    THEN {[err |-> WBACON_ERROR_OK, L |-> Lv, xty |-> xv, ops |-> <<>>]}
    ELSE LET call == <<[op |-> "downdate", i |-> stack[k]]>>
         IN  UNION {
               IF o.err = WBACON_ERROR_OK
               THEN {[r EXCEPT !.ops = call \o @] :
                        r \in second_pass(o.L, [xv EXCEPT ![stack[k]] = @ - 1],
                                          stack, k + 1, saved)}
               ELSE {[err |-> o.err, L |-> saved.L, xty |-> saved.xty,
                      ops |-> call]} :
               o \in chol_downdate(Lv, stack[k])}

\* update_chol_xty(dat, work, est, subset0, subset1, verbose)
update_chol_xty_LateCopy(Lv, xv, ia, s0, s1) ==
    LET fp == first_pass(Lv, xv, s0, s1, 0)
        saved == [L |-> fp.L, xty |-> fp.xty]
        stack == downdate_stack(s0, s1, 0)
        ia2 == [i \in Obs |-> IF i < Len(stack) THEN stack[i + 1] ELSE ia[i]]
    IN  {[err |-> o.err, L |-> o.L, xty |-> o.xty, iarray |-> ia2,
          ops |-> fp.ops \o o.ops] :
            o \in second_pass(fp.L, fp.xty, stack, 1, saved)}
update_chol_xty(Lv, xv, ia, s0, s1) ==
    LET saved == [L |-> Lv, xty |-> xv]
        fp == first_pass(Lv, xv, s0, s1, 0)
        stack == downdate_stack(s0, s1, 0)
        ia2 == [i \in Obs |-> IF i < Len(stack) THEN stack[i + 1] ELSE ia[i]]
    IN  {[err |-> o.err, L |-> o.L, xty |-> o.xty, iarray |-> ia2,
          ops |-> fp.ops \o o.ops] :
            o \in second_pass(fp.L, fp.xty, stack, 1, saved)}

\* qt(alpha / (2 (m + 1)), m - p, 0, 0): NaN (no score is below it, level 0)
\* for m - p <= 0, otherwise a positive quantile that depends on m only
qt(mv) ==
    IF mv - P <= 0 THEN {0}
    ELSE IF qtab[mv] >= 0 THEN {qtab[mv]}
    ELSE 1..(MaxScore + 1)

\* Memcpy(x, wx, *n * *p): x holds the QR factorization left in wx
CopyQR_Skipped(wxv) == x
CopyQR(wxv) == [qr |-> TRUE, fit |-> wxv]

\* "generate new subset that includes all obs. with t[i] < cutoff"
Candidate_Inclusive(d, cutoff) == [i \in Obs |-> IF d[i] <= cutoff THEN 1 ELSE 0]
Candidate(d, cutoff) == [i \in Obs |-> IF d[i] < cutoff THEN 1 ELSE 0]

\* wbacon_reg after a phase returned err: "if (err != WBACON_ERROR_OK)
\* *success = 0", otherwise *success keeps its value
SuccessAfter_OnlyRank(err, s) ==
    IF err = WBACON_ERROR_RANK_DEFICIENT THEN 0 ELSE s
SuccessAfter(err, s) == IF err # WBACON_ERROR_OK THEN 0 ELSE s

\* negation of the loop test of algorithm_5, while (iter <= *maxiter)
LoopDone_OneMore(it, mx) == it > mx + 1
LoopDone(it, mx) == it > mx

\* the Free calls behind clean_up, applied to the per-buffer Free counts
FreeAll_LeakL(f) == [b \in Buffers |-> IF b = "L" THEN f[b] ELSE f[b] + 1]
FreeAll(f) == [b \in Buffers |-> f[b] + 1]

\* no parallel region is active
OmpIdle ==
    [loop |-> "none", subset |-> [j \in {} |-> 0], mem |-> [a \in {} |-> 0],
     k |-> [t \in {} |-> 0], reg |-> [t \in {} |-> 0],
     writers |-> [a \in {} |-> {}]]

\* ------------------------------------------------------------------- Init
\* The state when wbacon_reg reaches STEP 0: the scratch buffers are
\* Calloc'ed (all zero), *success = 1.  The caller's inputs: the first nnull
\* weighted rows are null; the seed subset0 (from Algorithm 3) holds the
\* observations whose distance is below a cutoff, has more than p members,
\* and m is its size.
Init ==
    /\ pc = "ir_fit"
    /\ \E nnull \in 0..N : xrow = [i \in Obs |-> IF i < nnull THEN 0 ELSE 1]
    /\ collect \in 1..MaxCollect
    /\ maxiter0 \in 1..MaxIter
    /\ maxiter = maxiter0
    /\ dist \in [Obs -> Scores]
    /\ \E c \in 0..(MaxScore + 1) :
          subset0 = [i \in Obs |-> IF dist[i] < c THEN 1 ELSE 0]
    /\ Card(subset0) > P
    /\ m = Card(subset0)
    /\ subset1 = Zeros
    /\ iarray = Zeros
    /\ L = [rep |-> Zeros, fresh |-> FALSE, bad |-> FALSE]
    /\ xty = Zeros
    /\ wx = [sub |-> Zeros, ok |-> FALSE]
    /\ x = [qr |-> FALSE, fit |-> [sub |-> Zeros, ok |-> FALSE]]
    /\ success = 1
    /\ iter = 0
    /\ rets = <<>>
    /\ freed = [b \in Buffers |-> 0]
    /\ qtab = [k \in 0..(MaxM + 1) |-> -1]
    /\ sel = NoSel
    /\ refits = 0
    /\ omp = OmpIdle

\* ------------------------------------------------- step 0: initial_reg
\* first fitwls of initial_reg; on a rank-deficient fit the scores are
\* sorted and the first observation is added
IR_Fit ==
    /\ pc = "ir_fit"
    /\ wx' = fitwls(subset0)
    /\ IF wx'.ok
       THEN /\ pc' = "ir_extract"
            /\ UNCHANGED <<iarray, m, subset0>>
       ELSE /\ iarray' \in psort_array(dist)
            /\ IF m < N
               THEN /\ m' = m + 1
                    /\ subset0' = [subset0 EXCEPT ![iarray'[m' - 1]] = 1]
                    /\ pc' = "ir_refit"
               ELSE /\ pc' = "ir_extract"
                    /\ UNCHANGED <<m, subset0>>
    /\ UNCHANGED omp
    /\ UNCHANGED <<xrow, collect, maxiter0, subset1, dist, L, xty, x, success,
                   maxiter, iter, rets, freed, qtab, sel, refits>>

\* "re-do regression and check rank", then the next turn of while (*m < n)
IR_Refit ==
    /\ pc = "ir_refit"
    /\ wx' = fitwls(subset0)
    /\ IF wx'.ok
       THEN /\ pc' = "ir_extract"
            /\ UNCHANGED <<m, subset0>>
       ELSE IF m < N
            THEN /\ m' = m + 1
                 /\ subset0' = [subset0 EXCEPT ![iarray[m' - 1]] = 1]
                 /\ pc' = "ir_refit"
            ELSE /\ pc' = "ir_extract"
                 /\ UNCHANGED <<m, subset0>>
    /\ UNCHANGED omp
    /\ UNCHANGED <<xrow, collect, maxiter0, subset1, dist, iarray, L, xty, x,
                   success, maxiter, iter, rets, freed, qtab, sel, refits>>

\* extract L from wx and accumulate xty over the subset
IR_Extract ==
    /\ pc = "ir_extract"
    /\ L' = ExtractL(wx)
    /\ xty' = [i \in Obs |-> xty[i] + subset0[i]]
    /\ pc' = "ir_ti"
    /\ UNCHANGED omp
    /\ UNCHANGED <<xrow, collect, maxiter0, subset0, subset1, m, dist, iarray,
                   wx, x, success, maxiter, iter, rets, freed, qtab, sel,
                   refits>>

\* status = compute_ti(...); return status; then wbacon_reg: on an error
\* success = 0 and clean_up, otherwise m = p + 1 and select_subset
IR_ComputeTi ==
    /\ pc = "ir_ti"
    /\ \E e \in hat_matrix(L) :
          /\ rets' = Append(rets, e)
          /\ IF e # WBACON_ERROR_OK
             THEN /\ success' = SuccessAfter(e, success)
                  /\ pc' = "clean_up"
                  /\ UNCHANGED <<m, dist, subset1, sel>>
             ELSE /\ m' = P + 1
                  /\ \E d \in [Obs -> Scores] :
                        /\ sel' = [x |-> d, m |-> m']
                        /\ \E r \in select_subset(d, m') :
                              /\ dist' = r.x
                              /\ subset1' = r.subset
                  /\ pc' = "a4_update"
                  /\ UNCHANGED success
    /\ UNCHANGED omp
    /\ UNCHANGED <<xrow, collect, maxiter0, subset0, iarray, L, xty, wx, x,
                   maxiter, iter, freed, qtab, refits>>

\* ------------------------------------------------- step 1: algorithm_4
\* update_chol_xty (subset0 => subset1) at the top of the for (;;) loop
A4_Update ==
    /\ pc = "a4_update"
    /\ \E o \in update_chol_xty(L, xty, iarray, subset0, subset1) :
          /\ L' = o.L
          /\ xty' = o.xty
          /\ iarray' = o.iarray
          /\ pc' = IF o.err = WBACON_ERROR_OK THEN "a4_reg" ELSE "a4_retry"
    /\ sel' = NoSel
    /\ UNCHANGED omp
    /\ UNCHANGED <<xrow, collect, maxiter0, subset0, subset1, m, dist, wx, x,
                   success, maxiter, iter, rets, freed, qtab, refits>>

\* one turn of the inner for (;;): (*m)++, subset1[iarray[*m - 1]] = 1,
\* re-do the updating; return err when *m == p * *collect.  For *m > n the
\* read of iarray[*m - 1] leaves the array: the call dies or some entry of
\* subset1 is set.
A4_Retry ==
    /\ pc = "a4_retry"
    /\ m' = m + 1
    /\ \/ /\ m' > N
          /\ pc' = "crashed"
          /\ UNCHANGED <<subset1, L, xty, iarray, rets, success>>
       \/ /\ m' <= MaxM
          /\ \E idx \in (IF m' <= N THEN {iarray[m' - 1]} ELSE Obs) :
                subset1' = [subset1 EXCEPT ![idx] = 1]
          /\ \E o \in update_chol_xty(L, xty, iarray, subset0, subset1') :
                /\ L' = o.L
                /\ xty' = o.xty
                /\ iarray' = o.iarray
                /\ IF o.err = WBACON_ERROR_OK
                   THEN /\ pc' = "a4_reg"
                        /\ UNCHANGED <<rets, success>>
                   ELSE IF m' = P * collect
                        THEN /\ rets' = Append(rets, o.err)
                             /\ success' = SuccessAfter(o.err, success)
                             /\ pc' = "clean_up"
                        ELSE /\ pc' = "a4_retry"
                             /\ UNCHANGED <<rets, success>>
    /\ UNCHANGED omp
    /\ UNCHANGED <<xrow, collect, maxiter0, subset0, dist, wx, x, maxiter,
                   iter, freed, qtab, sel, refits>>

\* Memcpy(subset0, subset1), cholesky_reg, residuals, compute_ti, (*m)++ and
\* either the break (algorithm_4 returns OK, algorithm_5 starts with iter = 1)
\* or select_subset for the next turn.  For *m > n select_subset leaves the
\* score array.
A4_Reg ==
    /\ pc = "a4_reg"
    /\ subset0' = subset1
    /\ \E e \in hat_matrix(L) :
          IF e # WBACON_ERROR_OK
          THEN /\ rets' = Append(rets, e)
               /\ success' = SuccessAfter(e, success)
               /\ pc' = "clean_up"
               /\ UNCHANGED <<m, dist, subset1, sel, iter>>
          ELSE /\ m' = m + 1
               /\ \E d \in [Obs -> Scores] :
                     IF m' = P * collect + 1
                     THEN /\ dist' = d
                          /\ rets' = Append(rets, WBACON_ERROR_OK)
                          /\ iter' = 1
                          /\ pc' = "a5_fit"
                          /\ UNCHANGED <<subset1, sel, success>>
                     ELSE IF m' <= N
                     THEN /\ sel' = [x |-> d, m |-> m']
                          /\ \E r \in select_subset(d, m') :
                                /\ dist' = r.x
                                /\ subset1' = r.subset
                          /\ pc' = "a4_update"
                          /\ UNCHANGED <<rets, iter, success>>
                     ELSE \/ /\ pc' = "crashed"
                             /\ dist' = d
                             /\ UNCHANGED <<subset1, sel, rets, iter, success>>
                          \/ /\ m' <= MaxM
                             /\ sel' = [x |-> d, m |-> m']
                             /\ \E r \in select_subset_oob(d) :
                                   /\ dist' = r.x
                                   /\ subset1' = r.subset
                             /\ pc' = "a4_update"
                             /\ UNCHANGED <<rets, iter, success>>
    /\ UNCHANGED omp
    /\ UNCHANGED <<xrow, collect, maxiter0, iarray, L, xty, wx, x, maxiter,
                   freed, qtab, refits>>

\* ------------------------------------------------- step 2: algorithm_5
\* algorithm_5 is called with (subset1, subset0): its current subset is
\* wbacon_reg's subset1, its candidate is wbacon_reg's subset0.
\* Loop test, fitwls on the current subset, extraction of L, compute_ti.
\* A return from algorithm_5 is followed by Memcpy(x, wx) in wbacon_reg.
A5_Fit ==
    /\ pc = "a5_fit"
    /\ IF LoopDone(iter, maxiter)
       THEN /\ rets' = Append(rets, WBACON_ERROR_CONVERGENCE_FAILURE)
            /\ success' = SuccessAfter(WBACON_ERROR_CONVERGENCE_FAILURE,
                                       success)
            /\ x' = CopyQR(wx)
            /\ pc' = "clean_up"
            /\ UNCHANGED <<wx, L, dist, refits>>
       ELSE /\ wx' = fitwls(subset1)
            /\ refits' = refits + 1
            /\ IF ~wx'.ok
               THEN /\ rets' = Append(rets, WBACON_ERROR_RANK_DEFICIENT)
                    /\ success' = SuccessAfter(WBACON_ERROR_RANK_DEFICIENT,
                                               success)
                    /\ x' = CopyQR(wx')
                    /\ pc' = "clean_up"
                    /\ UNCHANGED <<L, dist>>
               ELSE /\ L' = ExtractL(wx')
                    /\ \E e \in hat_matrix(L') :
                          IF e # WBACON_ERROR_OK
                          THEN /\ rets' = Append(rets, e)
                               /\ success' = SuccessAfter(e, success)
                               /\ x' = CopyQR(wx')
                               /\ pc' = "clean_up"
                               /\ UNCHANGED dist
                          ELSE /\ dist' \in [Obs -> Scores]
                               /\ pc' = "a5_cutoff"
                               /\ UNCHANGED <<rets, success, x>>
    /\ UNCHANGED omp
    /\ UNCHANGED <<xrow, collect, maxiter0, subset0, subset1, m, iarray, xty,
                   maxiter, iter, freed, qtab, sel>>

\* cutoff, the new candidate (all obs. with t[i] < cutoff), the comparison
\* of the subsets, and either the return or Memcpy + iter++
A5_Select ==
    /\ pc = "a5_cutoff"
    /\ \E cutoff \in qt(m) :
          /\ qtab' = IF m - P <= 0 THEN qtab ELSE [qtab EXCEPT ![m] = cutoff]
          /\ subset0' = Candidate(dist, cutoff)
    /\ m' = Card(subset0')
    /\ IF subset0' = subset1
       THEN /\ maxiter' = iter
            /\ rets' = Append(rets, WBACON_ERROR_OK)
            /\ x' = CopyQR(wx)
            /\ pc' = "clean_up"
            /\ UNCHANGED <<subset1, iter>>
       ELSE /\ subset1' = subset0'
            /\ iter' = iter + 1
            /\ pc' = "a5_fit"
            /\ UNCHANGED <<maxiter, rets, x>>
    /\ UNCHANGED omp
    /\ UNCHANGED <<xrow, collect, maxiter0, dist, iarray, L, xty, wx, success,
                   freed, sel, refits>>

\* ------------------------------------------------------------- clean_up
\* the twelve Free calls behind the label clean_up, then the return
CleanUp ==
    /\ pc = "clean_up"
    /\ freed' = FreeAll(freed)
    /\ pc' = "done"
    /\ UNCHANGED omp
    /\ UNCHANGED <<xrow, collect, maxiter0, subset0, subset1, m, dist, iarray,
                   L, xty, wx, x, success, maxiter, iter, rets, qtab, sel,
                   refits>>

\* ------------------------------------------------- the parallel loops
\* The two "#pragma omp parallel for" loops, run with the if clause true and
\* one thread per outer iteration.  An accumulation a[..] += term is a load
\* followed by a store.
\*   "xty": for (i < p) for (j < n) if (subset[j]) xty[i] += w[j]*x[j+i*n]*y[j]
\*   "hat": for (1 <= j < p) for (i < n) hat[i] += work_np[i + j*n]^2
\* omp.k[t] is the inner index of outer iteration t, omp.reg[t] the value it
\* has loaded (-1: none), omp.writers[a] the outer iterations that have
\* stored to location a.
seqvars == <<pc, xrow, collect, maxiter0, subset0, subset1, m, dist, iarray,
             L, xty, wx, x, success, maxiter, iter, rets, freed, qtab, sel,
             refits>>

\* the outer iterations of the loop
OmpIters(loop) == IF loop = "xty" THEN 0..(OmpP - 1) ELSE 1..(OmpP - 1)
\* the locations the loop accumulates into: xty[0..p-1] or hat[0..n-1]
OmpLocs(loop) == IF loop = "xty" THEN 0..(OmpP - 1) ELSE 0..(OmpN - 1)
\* the location outer iteration t accumulates into at inner index k
OmpLoc(loop, t, k) == IF loop = "xty" THEN t ELSE k
\* the term added there; the terms of one location are distinct powers of 2
OmpTerm(loop, t, k) == IF loop = "xty" THEN 2 ^ k ELSE 2 ^ t
\* the values on entry to the loop: xty is zero (Calloc), hat[i] has been set
\* to work_np[i]^2 by the sequential loop before the pragma
OmpEntry(loop) == IF loop = "xty" THEN 0 ELSE 1

InitOmp ==
    /\ pc = "omp"
    /\ xrow = [i \in Obs |-> 1]
    /\ collect = 1
    /\ maxiter0 = 1
    /\ maxiter = 1
    /\ dist = Zeros
    /\ subset0 = Zeros
    /\ subset1 = Zeros
    /\ m = 0
    /\ iarray = Zeros
    /\ L = [rep |-> Zeros, fresh |-> FALSE, bad |-> FALSE]
    /\ xty = Zeros
    /\ wx = [sub |-> Zeros, ok |-> FALSE]
    /\ x = [qr |-> FALSE, fit |-> [sub |-> Zeros, ok |-> FALSE]]
    /\ success = 1
    /\ iter = 0
    /\ rets = <<>>
    /\ freed = [b \in Buffers |-> 0]
    /\ qtab = [k \in 0..(MaxM + 1) |-> -1]
    /\ sel = NoSel
    /\ refits = 0
    /\ \E loop \in {"xty", "hat"}, sub \in [0..(OmpN - 1) -> {0, 1}] :
          /\ loop = "hat" => sub = [j \in 0..(OmpN - 1) |-> 1]
          /\ omp = [loop |-> loop,
                    subset |-> sub,
                    mem |-> [a \in OmpLocs(loop) |-> OmpEntry(loop)],
                    k |-> [t \in OmpIters(loop) |-> 0],
                    reg |-> [t \in OmpIters(loop) |-> -1],
                    writers |-> [a \in OmpLocs(loop) |-> {}]]

\* outer iteration t reads the location of its next accumulation (or finds
\* subset[j] = 0 and moves on)
OmpLoad(t) ==
    /\ t \in OmpIters(omp.loop)
    /\ omp.k[t] < OmpN
    /\ omp.reg[t] = -1
    /\ IF omp.loop = "xty" /\ omp.subset[omp.k[t]] = 0
       THEN omp' = [omp EXCEPT !.k[t] = @ + 1]
       ELSE omp' = [omp EXCEPT
                       !.reg[t] = omp.mem[OmpLoc(omp.loop, t, omp.k[t])]]
    /\ UNCHANGED seqvars

\* outer iteration t writes back the value it read plus its term
OmpStore(t) ==
    /\ t \in OmpIters(omp.loop)
    /\ omp.reg[t] # -1
    /\ LET a == OmpLoc(omp.loop, t, omp.k[t])
       IN  omp' = [omp EXCEPT
                      !.mem[a] = omp.reg[t] + OmpTerm(omp.loop, t, omp.k[t]),
                      !.writers[a] = @ \cup {t},
                      !.reg[t] = -1,
                      !.k[t] = @ + 1]
    /\ UNCHANGED seqvars

NextOmp ==
    \/ \E t \in 0..(OmpP - 1) : OmpLoad(t)
    \/ \E t \in 0..(OmpP - 1) : OmpStore(t)

SpecOmp == InitOmp /\ [][NextOmp]_vars

\* ------------------------------------------------------------ properties
Returned == pc \in {"clean_up", "done"}
LastRet == rets[Len(rets)]
AllOK == <<WBACON_ERROR_OK, WBACON_ERROR_OK, WBACON_ERROR_OK>>

\* C1: when wbacon_reg returns, success = 1 iff initial_reg, algorithm_4 and
\* algorithm_5 all returned OK; an error returned by a phase gives success = 0
\* and is the last phase that ran.
C1_SuccessIffAllPhasesOK ==
    Returned =>
        /\ Len(rets) \in 1..3
        /\ (success = 1) <=> (rets = AllOK)
        /\ success \in {0, 1}
        /\ \A k \in 1..Len(rets) :
              rets[k] # WBACON_ERROR_OK => (k = Len(rets) /\ success = 0)
C1_Witness ==
    /\ pc = "done"
    /\ success = 0
    /\ rets = <<WBACON_ERROR_OK, WBACON_ERROR_RANK_DEFICIENT>>

\* C2: when wbacon_reg returns with success = 1, L is the factor extracted
\* from a successful fitwls on exactly the subset returned in subset0.
C2_FactorOfFinalSubset ==
    (Returned /\ success = 1) =>
        /\ L.fresh /\ ~L.bad
        /\ L.rep = subset0
        /\ wx.ok /\ wx.sub = subset0
C2_Witness ==
    /\ pc = "clean_up"
    /\ success = 1
    /\ iter = 2
    /\ Card(subset0) < N

\* C7 as stated: algorithm_5 either converges with *maxiter = number of
\* refits k, 1 <= k <= maxiter on entry, or returns ConvergenceFailure with
\* *maxiter unchanged.
C7_ConvergedOrConvergenceFailure ==
    (Returned /\ Len(rets) = 3) =>
        \/ /\ LastRet = WBACON_ERROR_OK
           /\ maxiter = refits
           /\ refits \in 1..maxiter0
        \/ /\ LastRet = WBACON_ERROR_CONVERGENCE_FAILURE
           /\ maxiter = maxiter0
           /\ refits = maxiter0

\* steps algorithm_5 can still take: two per remaining turn of the loop
A5_Measure ==
    IF pc = "a5_fit" THEN 2 * (maxiter0 + 1 - iter) + 1
    ELSE IF pc = "a5_cutoff" THEN 2 * (maxiter0 + 1 - iter)
    ELSE 0

C7_Exits ==
    /\ refits <= maxiter0
    /\ (pc \in {"a5_fit", "a5_cutoff"} =>
          /\ maxiter = maxiter0
          /\ A5_Measure > 0
          /\ ENABLED (A5_Fit \/ A5_Select))
    /\ (pc = "a5_fit" => refits = iter - 1)
    /\ (pc = "a5_cutoff" => refits = iter)
    /\ (Returned /\ Len(rets) = 3) =>
          \/ /\ LastRet = WBACON_ERROR_OK
             /\ maxiter = refits
             /\ refits \in 1..maxiter0
          \/ /\ LastRet \in {WBACON_ERROR_RANK_DEFICIENT,
                             WBACON_ERROR_TRIANG_MAT_SINGULAR}
             /\ maxiter = maxiter0
             /\ refits \in 1..maxiter0
          \/ /\ LastRet = WBACON_ERROR_CONVERGENCE_FAILURE
             /\ maxiter = maxiter0
             /\ refits = maxiter0

\* C7 (amended): algorithm_5 always terminates after at most maxiter refits
\* (it can always take a step, and every step lowers A5_Measure); it returns
\* OK with *maxiter = number of refits k, 1 <= k <= maxiter on entry, or
\* returns RankDeficient / TriangularMatrixSingular from the k-th refit with
\* *maxiter unchanged, or returns ConvergenceFailure after maxiter refits that
\* all changed the subset, with *maxiter unchanged.
C7_BoundedRefinement ==
    /\ []C7_Exits
    /\ [][(pc \in {"a5_fit", "a5_cutoff"}) => (A5_Measure' < A5_Measure)]_vars
C7_Witness ==
    /\ pc = "clean_up"
    /\ Len(rets) = 3
    /\ LastRet = WBACON_ERROR_CONVERGENCE_FAILURE
    /\ refits = MaxIter

\* C8: every scratch buffer is passed to Free exactly once on every return
\* path, and not before.
C8_FreedExactlyOnce ==
    /\ pc = "done" => \A b \in Buffers : freed[b] = 1
    /\ pc # "done" => \A b \in Buffers : freed[b] = 0
C8_Witness ==
    /\ pc = "done"
    /\ success = 0
    /\ Len(rets) = 1
    /\ \A b \in Buffers : freed[b] = 1

\* L and xty hold exactly the contributions of the subset s, and L does not
\* come from a fit that failed the rank check
Represents(Lv, xv, s) == Lv.rep = s /\ xv = s /\ ~Lv.bad

\* C3: wherever a phase or a growth step is reported OK, and wherever
\* coefficients, residuals or scores are derived from L and xty, both hold
\* exactly the subset the driver currently works on and L is not the factor of
\* a failed fit.
C3_NormalEquationsMatchSubset ==
    /\ pc = "ir_ti" => Represents(L, xty, subset0)
    /\ pc = "a4_update" => Represents(L, xty, subset0)
    /\ pc = "a4_reg" => Represents(L, xty, subset1)
    /\ pc = "a5_cutoff" => Represents(L, xty, subset1)
    /\ (Returned /\ rets = AllOK) => Represents(L, xty, subset0)

\* the design is rank deficient for every subset of the observations
RankDeficientForEverySubset == ~FullRank([i \in Obs |-> 1])

\* C4: a design that is rank deficient for every subset makes wbacon_reg
\* return success = 0 with the RankDeficient error.
C4_RankDeficientDesignFails ==
    (Returned /\ RankDeficientForEverySubset) =>
        /\ success = 0
        /\ LastRet = WBACON_ERROR_RANK_DEFICIENT

\* the mv-th smallest value of the score array xv
KthSmallest(xv, mv) ==
    CHOOSE v \in Scores :
        /\ Cardinality({i \in Obs : xv[i] < v}) < mv
        /\ Cardinality({i \in Obs : xv[i] <= v}) >= mv

\* C5: after select_subset(x, subset, m, n) with 1 <= m <= n, subset[i] = 1
\* exactly for the observations i whose score on entry was <= the m-th
\* smallest score, so at least m observations are marked.
C5_SelectMarksSmallestScores ==
    (pc = "a4_update" /\ sel.m \in 1..N) =>
        /\ \A i \in Obs :
              subset1[i] = 1 <=> sel.x[i] <= KthSmallest(sel.x, sel.m)
        /\ Card(subset1) >= sel.m

\* C6: when algorithm_5 has returned OK, one more refinement step on the
\* returned subset (refit, the same scores, the cutoff of the returned m)
\* gives the returned subset again.
C6_RefinementFixedPoint ==
    (Returned /\ rets = AllOK) =>
        /\ fitwls(subset0).ok
        /\ \A cutoff \in qt(m) : Candidate(dist, cutoff) = subset0

\* C9: m is the number of members of the subset it describes, when the
\* cutoff is computed (the subset just fitted) and when wbacon_reg returns
\* (subset0).
C9_MIsCardinality ==
    /\ pc = "a5_cutoff" => m = Card(subset1)
    /\ Returned => m = Card(subset0)

\* C10: at every fit attempt (fitwls in initial_reg and algorithm_5,
\* cholesky_reg in algorithm_4) m > p.
C10_FitNeedsMoreThanP ==
    /\ pc \in {"ir_fit", "ir_refit", "a4_reg"} => m > P
    /\ (pc = "a5_fit" /\ ~LoopDone(iter, maxiter)) => m > P

\* C11 as stated: on every return of wbacon_reg x holds the QR factorization
\* left in wx by the last fit of the call, and x is not written before the
\* return.
C11_DesignOverwrittenOnReturn ==
    /\ Returned => (x.qr /\ x.fit = wx)
    /\ ~Returned => ~x.qr

\* C11 (amended): when wbacon_reg returns after algorithm_5 ran (whatever it
\* returned), x holds the QR factorization left in wx by the last fit of the
\* call; when it returns from step 0 or step 1 with an error, x still holds
\* the design; during the phases x is only read.
C11_DesignOverwrittenAfterStep2 ==
    /\ (Returned /\ Len(rets) = 3) => (x.qr /\ x.fit = wx /\ refits >= 1)
    /\ (Returned /\ Len(rets) < 3) => (~x.qr /\ success = 0)
    /\ ~Returned => ~x.qr
C11_Witness ==
    /\ pc = "done"
    /\ Len(rets) = 3
    /\ LastRet = WBACON_ERROR_RANK_DEFICIENT
    /\ x.qr /\ ~x.fit.ok

\* change the transition s0 -> s1 asks for at observation i: +1 an update,
\* -1 a downdate, 0 nothing
Delta(s0, s1, i) == IF s1[i] > s0[i] THEN 1 ELSE IF s1[i] < s0[i] THEN -1 ELSE 0

\* C12: every update_chol_xty call (at the top of algorithm_4's loop and in
\* its retry loop) either returns OK with every update and every downdate of
\* the transition subset0 -> subset1 applied to L and xty, or fails with L and
\* xty equal, entry for entry, to their values at the start of the call; the
\* error it fails with is RankDeficient.
C12_TransactionalUpdate ==
    [][(pc \in {"a4_update", "a4_retry"}) =>
          IF pc' = "a4_reg"
          THEN \A i \in Obs :
                  /\ L'.rep[i] = L.rep[i] + Delta(subset0, subset1', i)
                  /\ xty'[i] = xty[i] + Delta(subset0, subset1', i)
          ELSE /\ L' = L
               /\ xty' = xty
               /\ (pc' = "clean_up" =>
                      rets' = Append(rets, WBACON_ERROR_RANK_DEFICIENT))]_vars
\* a call has failed whose first pass had applied an update
C12_Witness ==
    /\ pc = "a4_retry"
    /\ \E i \in Obs : subset1[i] > subset0[i]
    /\ \E i \in Obs : subset1[i] < subset0[i]
    /\ L.rep = subset0 /\ xty = subset0

\* the chol_update / chol_downdate calls of one update_chol_xty call, in the
\* order made: every update precedes every downdate
UpdatesFirst(ops) ==
    \A a, b \in DOMAIN ops :
        (a < b /\ ops[a].op = "downdate") => ops[b].op = "downdate"
\* only observations entering the subset are updated, only observations
\* leaving it are downdated
OnlyChanged(ops, s0, s1) ==
    \A k \in DOMAIN ops :
        Delta(s0, s1, ops[k].i) = (IF ops[k].op = "update" THEN 1 ELSE -1)
\* number of calls made for observation i
Processed(ops, i) == Cardinality({k \in DOMAIN ops : ops[k].i = i})

C14_InitialRankDeficiencyIsFatal ==
    (L.bad /\ pc # "ir_ti") =>
        /\ rets = <<WBACON_ERROR_RANK_DEFICIENT>>
        /\ success = 0
        /\ Returned

\* C15: every turn of algorithm_4's retry loop (taken after a failed
\* update_chol_xty, with m still within the array) adds to subset1 exactly one
\* observation that was not in subset1, and that observation has the smallest
\* current score among the observations not in subset1.
C15_RetryAddsSmallestOutsider ==
    [][(pc = "a4_retry" /\ m' <= N) =>
          \E j \in Obs :
              /\ subset1[j] = 0
              /\ subset1' = [subset1 EXCEPT ![j] = 1]
              /\ \A k \in Obs : subset1[k] = 0 => dist[j] <= dist[k]]_vars

\* C16: for a ceiling p * collect that lies above the starting size p + 1 and
\* within n, m never passes the ceiling (nor n) while algorithm_4 runs, and the
\* phase ends by returning to wbacon_reg (it has no other way out): with OK
\* only when m had reached the target, with the error of the failed retry
\* only at the ceiling.
C16_GrowthStopsAtCeiling ==
    (collect >= 2 /\ P * collect <= N) =>
        /\ pc \in {"a4_update", "a4_retry", "a4_reg"} =>
              (m <= P * collect /\ m <= N)
        /\ pc # "crashed"
        /\ (Returned /\ Len(rets) = 2) =>
              (LastRet = WBACON_ERROR_RANK_DEFICIENT => m = P * collect)

\* what sequential execution of the loop leaves in location a
OmpSequential(loop, sub, a) ==
    IF loop = "xty"
    THEN LET RECURSIVE sum(_)
             sum(j) == IF j = OmpN THEN 0
                       ELSE (IF sub[j] = 1 THEN 2 ^ j ELSE 0) + sum(j + 1)
         IN  sum(0)
    ELSE 2 ^ OmpP - 1
OmpFinished == \A t \in DOMAIN omp.k : omp.k[t] = OmpN

\* C17: in both parallel loops no location is written by two different outer
\* iterations, and when all iterations have ended every location holds what
\* sequential execution leaves there.
C17_ParallelLoopsWriteDisjoint ==
    /\ \A a \in DOMAIN omp.writers : Cardinality(omp.writers[a]) <= 1
    /\ OmpFinished =>
          \A a \in DOMAIN omp.mem :
              omp.mem[a] = OmpSequential(omp.loop, omp.subset, a)

\* C18: in every refinement iteration that gets to the cutoff, the candidate
\* (algorithm_5's subset1, the driver's subset0) holds exactly the observations
\* with score strictly below the cutoff and m becomes their count; algorithm_5
\* returns OK from that iteration iff the candidate equals the current subset
\* at every position, and otherwise the candidate becomes the current subset
\* of the next iteration.
C18_CandidateBelowCutoff ==
    [][(pc = "a5_cutoff") =>
          LET cutoff == IF m - P <= 0 THEN 0 ELSE qtab'[m]
              same == \A i \in Obs : subset0'[i] = subset1[i]
          IN  /\ \A i \in Obs : subset0'[i] = 1 <=> dist[i] < cutoff
              /\ \A i \in Obs : subset0'[i] \in {0, 1}
              /\ m' = Cardinality({i \in Obs : dist[i] < cutoff})
              /\ same <=> (pc' = "clean_up" /\ rets' = Append(rets, WBACON_ERROR_OK)
                            /\ maxiter' = iter)
              /\ ~same => (/\ pc' = "a5_fit"
                           /\ subset1' = subset0'
                           /\ iter' = iter + 1
                           /\ rets' = rets)]_vars
\* an iteration has excluded a score equal to its cutoff and changed the
\* subset
C18_Witness ==
    /\ pc = "a5_fit"
    /\ iter = 2
    /\ \E c \in 1..MaxScore :
          /\ qtab[P * collect + 1] = c
          /\ \E i \in Obs : dist[i] = c /\ subset1[i] = 0
          /\ \E i \in Obs : dist[i] < c /\ subset1[i] = 1
          /\ subset1 = [i \in Obs |-> IF dist[i] < c THEN 1 ELSE 0]

Next ==
    \/ IR_Fit \/ IR_Refit \/ IR_Extract \/ IR_ComputeTi
    \/ A4_Update \/ A4_Retry \/ A4_Reg
    \/ A5_Fit \/ A5_Select
    \/ CleanUp

Spec == Init /\ [][Next]_vars
====
